---- MODULE Spec2Model ----
(***************************************************************************)
(* A model of the wrapping layer of src/utils/decorators.py: the timing    *)
(* wrappers (monitor_performance, monitor_performance_async), the retry    *)
(* wrappers (retry, retry_async), the memoizing wrapper (cache_result over *)
(* the module-level TTLCache _cache) and the precondition wrapper          *)
(* (validate_data), with the exception classes of src/utils/exceptions.py. *)
(*                                                                         *)
(* Each wrapper has its own specification (SpecRetry, SpecCache,           *)
(* SpecMonitor, SpecValidate); the variables of the other wrappers stay at *)
(* their initial values there.  SpecPassThrough has the wrappers that call *)
(* func once, one of them in use per behaviour.                            *)
(***************************************************************************)
EXTENDS Integers, Sequences, FiniteSets, TLC

(***************************************************************************)
(* Bounds of the model.                                                    *)
(***************************************************************************)
\* largest max_attempts given to retry / retry_async
MaxAttempts == 4
\* largest delay (seconds) given to retry / retry_async
MaxDelay == 2
\* largest backoff factor given to retry / retry_async
MaxBackoff == 2
\* number of calls of cache_result-wrapped operations in one behaviour
MaxCalls == 3
\* seconds by which the clock advances in one step, and the last instant
TickStep == 150
MaxTime == 320
\* number of invocations of each timing wrapper in one behaviour
MaxInvocations == 2
\* the last instant of the wall clock read by the timing wrappers
MaxWall == 2
\* largest number of rows of a DataFrame
MaxRows == 2

(***************************************************************************)
(* Constants of the program.                                               *)
(***************************************************************************)
\* _cache = TTLCache(maxsize=1000, ttl=300)
CacheMaxSize == 1000
CacheTTL == 300

None == "None"

(***************************************************************************)
(* Exception classes: src/utils/exceptions.py, and the builtins the code   *)
(* and the wrapped operations raise.  Base(c) is the class c derives from; *)
(* asyncio.CancelledError derives from BaseException (Python 3.8 and       *)
(* later).                                                                 *)
(***************************************************************************)
TaxonomyClasses ==
    { "ICTTradingError", "DataError", "DataValidationError", "DataSourceError",
      "InsufficientDataError", "ICTAnalysisError", "PatternNotFoundError",
      "InvalidPatternError", "MLError", "ModelNotFoundError", "MLTrainingError",
      "FeatureEngineeringError", "TradingError", "RiskManagementError",
      "ExecutionError", "PositionSizingError", "BacktestError",
      "PerformanceCalculationError", "ConfigurationError", "ValidationError" }

BuiltinClasses ==
    { "BaseException", "Exception", "ValueError", "KeyError", "TimeoutError",
      "CancelledError" }

ExceptionClasses == TaxonomyClasses \cup BuiltinClasses

Base(c) ==
    CASE c = "ICTTradingError" -> "Exception"
      [] c \in {"DataError", "ICTAnalysisError", "MLError", "TradingError",
                "BacktestError", "ConfigurationError", "ValidationError"}
            -> "ICTTradingError"
      [] c \in {"DataValidationError", "DataSourceError", "InsufficientDataError"}
            -> "DataError"
      [] c \in {"PatternNotFoundError", "InvalidPatternError"} -> "ICTAnalysisError"
      [] c \in {"ModelNotFoundError", "MLTrainingError", "FeatureEngineeringError"}
            -> "MLError"
      [] c \in {"RiskManagementError", "ExecutionError", "PositionSizingError"}
            -> "TradingError"
      [] c = "PerformanceCalculationError" -> "BacktestError"
      [] c \in {"ValueError", "KeyError", "TimeoutError"} -> "Exception"
      [] c \in {"Exception", "CancelledError"} -> "BaseException"
      [] OTHER -> None

\* issubclass(c, d)
RECURSIVE IsSubclass(_, _)
IsSubclass(c, d) ==
    IF c = d THEN TRUE
    ELSE IF c = None \/ Base(c) = None THEN FALSE
    ELSE IsSubclass(Base(c), d)

\* what "except Exception" catches
CaughtByExceptException(c) == IsSubclass(c, "Exception")

(***************************************************************************)
(* State.                                                                  *)
(***************************************************************************)
VARIABLES
    \* ---- retry / retry_async: the decorator's arguments and the wrapped
    \* operation's behaviour (script[i] is the outcome of its i-th invocation:
    \* "ok" or the class of the exception it raises)
    max_attempts, delay, backoff, script,
    timed,           \* is func the timing wrapper around the operation?
    \* ---- retry / retry_async: per wrapper ("retry", "retry_async")
    rpc,             \* position in wrapper()
    attempt,         \* the loop variable
    current_delay,
    last_exception,  \* NoExc or [cls, at]: the exception of invocation `at`
    calls,           \* number of invocations of func so far
    waits,           \* the durations slept so far, in order
    rlog,            \* the timing wrapper's records and the sleeps, in order
    rresult,         \* None, or how wrapper() ended
    \* ---- cache_result: the shared store and the clock
    cache,           \* _cache: its links [key, value, expires], the least
                     \* recently used first
    now,             \* the timer of _cache (seconds)
    \* ---- cache_result: per calling thread
    cpc,             \* position in wrapper()
    cfunc, carg,     \* the decorated function called, and its argument
    cres,            \* None, or how wrapper() ended
    cinvoked,        \* the outcomes of the invocations of func by this call
    \* ---- cache_result: history, read by the properties only
    hist,            \* per key: stores so far, and the last one (by, at, evicted)
    seen,            \* per thread: hist of its key and the time, at its check
    prev,            \* per thread: how its previous call went
    ncalls,          \* calls made so far
    \* ---- monitor_performance / monitor_performance_async
    wall,            \* time.time()
    mpc,             \* per wrapper: position in wrapper()
    start_time,      \* per wrapper
    mresult,         \* per wrapper: None, or how the last invocation ended
    minvoked,        \* per wrapper: the outcomes of the invocations of func
                     \* by the last invocation of wrapper()
    invocations,     \* per wrapper: invocations of wrapper() that have ended
    records,         \* the records logged so far, in order
    \* ---- validate_data: the decorator's arguments, the call's arguments and
    \* what the wrapped function does when invoked
    required_columns, min_rows, vargs, vkwargs, vfunc,
    \* ---- validate_data: the call
    vpc,             \* position in wrapper()
    df,              \* the DataFrame found among the arguments, or NoDf
    vcalls,          \* number of invocations of func
    vpassed,         \* the (args, kwargs) of each invocation of func, in order
    vresult          \* how wrapper() ended

retryVars == << max_attempts, delay, backoff, script, timed, rpc, attempt,
                current_delay, last_exception, calls, waits, rlog, rresult >>

cacheVars == << cache, now, cpc, cfunc, carg, cres, cinvoked, hist, seen, prev,
               ncalls >>

monitorVars == << wall, mpc, start_time, mresult, minvoked, invocations,
                 records >>

validateVars == << required_columns, min_rows, vargs, vkwargs, vfunc, vpc, df,
                   vcalls, vpassed, vresult >>

vars == << retryVars, cacheVars, monitorVars, validateVars >>

exceptRetry == << cacheVars, monitorVars, validateVars >>
exceptCache == << retryVars, monitorVars, validateVars >>
exceptMonitor == << retryVars, cacheVars, validateVars >>
exceptValidate == << retryVars, cacheVars, monitorVars >>

(***************************************************************************)
(* What the timing wrappers log.                                           *)
(***************************************************************************)
Monitors == {"monitor_performance", "monitor_performance_async"}

\* logger.debug(... executed in ...) / logger.error(... failed after ...)
Record(m, outcome, duration) ==
    [wrapper |-> m, outcome |-> outcome, duration |-> duration]

\* a timing wrapper that logs the successes only
LoggedSuccessOnly(m, out, duration) ==
    IF out = "ok" THEN << Record(m, "success", duration) >> ELSE << >>

\* what wrapper m logs for one invocation of func that ends with `out` ("ok",
\* or the class of the exception func raises) after `duration` seconds
Logged(m, out, duration) ==
    IF out = "ok" THEN << Record(m, "success", duration) >>
    ELSE IF CaughtByExceptException(out) THEN << Record(m, "failure", duration) >>
    ELSE << >>

(***************************************************************************)
(* retry and retry_async.  With `timed`, the operation is decorated with   *)
(* both wrappers, the retry wrapper outermost: the func that retry invokes *)
(* is the timing wrapper's wrapper().                                      *)
(***************************************************************************)
Wrappers == {"retry", "retry_async"}

\* what a wrapped operation may do on one invocation
Outcomes == {"ok", "DataSourceError", "TimeoutError"}

\* the exception object raised by invocation number `at` of func
Exc(cls, at) == [cls |-> cls, at |-> at]

\* "last_exception = None"
NoExc == Exc(None, 0)

\* the timing wrapper that fits under each retry wrapper
TimerOf(w) ==
    IF w = "retry" THEN "monitor_performance" ELSE "monitor_performance_async"

\* what one invocation of func, ending with `out`, leaves in the log
FuncLog(w, out) == IF timed THEN Logged(TimerOf(w), out, 0) ELSE << >>

\* the log entry of a completed sleep of d seconds
Slept(w, d) == [wrapper |-> w, outcome |-> "sleep", duration |-> d]

\* a loop that makes one iteration less
InRangeShort(a, n) == a < n - 1

\* "for attempt in range(max_attempts)": is there an iteration for `a`?
InRange(a, n) == a < n

\* a wrapper that sleeps after every failure, the last one included
WillRetryAlways(a, n) == a < n

\* "if attempt < max_attempts - 1"
WillRetry(a, n) == a < n - 1

\* a wrapper that keeps the first exception it saw
RememberFirst(last, e) == IF last = NoExc THEN e ELSE last

\* "last_exception = e"
Remember(last, e) == e

\* a wrapper whose delay grows by addition
BackoffAdd(cur, b) == cur + b

\* "current_delay *= backoff"
Backoff(cur, b) == cur * b

\* the decorator's arguments, the wrapped operation's behaviour, and whether
\* the operation is timed as well
RetryInputs ==
    /\ max_attempts \in 1..MaxAttempts
    /\ delay \in 0..MaxDelay
    /\ backoff \in 1..MaxBackoff
    /\ script \in [1..MaxAttempts -> Outcomes]
    /\ timed \in BOOLEAN

\* one fixed choice of them, where retry is not under study
RetryUnused ==
    /\ max_attempts = 1
    /\ delay = 0
    /\ backoff = 1
    /\ script = [i \in 1..MaxAttempts |-> "ok"]
    /\ timed = FALSE

\* no wrapper() has been called yet
RetryStart ==
    /\ rpc = [w \in Wrappers |-> "idle"]
    /\ attempt = [w \in Wrappers |-> 0]
    /\ current_delay = [w \in Wrappers |-> 0]
    /\ last_exception = [w \in Wrappers |-> NoExc]
    /\ calls = [w \in Wrappers |-> 0]
    /\ waits = [w \in Wrappers |-> << >>]
    /\ rlog = [w \in Wrappers |-> << >>]
    /\ rresult = [w \in Wrappers |-> None]

\* wrapper() is called: the two assignments before the loop, and the loop's
\* first test
Enter(w) ==
    /\ rpc[w] = "idle"
    /\ current_delay' = [current_delay EXCEPT ![w] = delay]
    /\ last_exception' = [last_exception EXCEPT ![w] = NoExc]
    /\ attempt' = [attempt EXCEPT ![w] = 0]
    /\ rpc' = [rpc EXCEPT ![w] = IF InRange(0, max_attempts) THEN "try" ELSE "raise"]
    /\ UNCHANGED << max_attempts, delay, backoff, script, timed, calls, waits,
                    rlog, rresult >>
    /\ UNCHANGED exceptRetry

\* one pass through the try statement, up to the return, the sleep or the end
\* of the loop body
Try(w) ==
    /\ rpc[w] = "try"
    /\ calls[w] < MaxAttempts
    /\ LET at == calls[w] + 1
           out == script[at]
       IN  /\ calls' = [calls EXCEPT ![w] = at]
           /\ rlog' = [rlog EXCEPT ![w] = @ \o FuncLog(w, out)]
           /\ IF out = "ok"
              THEN /\ rresult' = [rresult EXCEPT ![w] = [kind |-> "return", at |-> at]]
                   /\ rpc' = [rpc EXCEPT ![w] = "done"]
                   /\ UNCHANGED << last_exception, attempt >>
              ELSE /\ last_exception' =
                          [last_exception EXCEPT ![w] = Remember(@, Exc(out, at))]
                   /\ IF WillRetry(attempt[w], max_attempts)
                      THEN /\ rpc' = [rpc EXCEPT ![w] = "sleep"]
                           /\ UNCHANGED attempt
                      ELSE /\ attempt' = [attempt EXCEPT ![w] = @ + 1]
                           /\ rpc' = [rpc EXCEPT ![w] =
                                  IF InRange(attempt[w] + 1, max_attempts)
                                  THEN "try" ELSE "raise"]
                   /\ UNCHANGED rresult
    /\ UNCHANGED << max_attempts, delay, backoff, script, timed, current_delay,
                    waits >>
    /\ UNCHANGED exceptRetry

\* the sleep ends: "current_delay *= backoff" and the next iteration's test
Sleep(w) ==
    /\ rpc[w] = "sleep"
    /\ waits' = [waits EXCEPT ![w] = Append(@, current_delay[w])]
    /\ rlog' = [rlog EXCEPT ![w] = Append(@, Slept(w, current_delay[w]))]
    /\ current_delay' = [current_delay EXCEPT ![w] = Backoff(@, backoff)]
    /\ attempt' = [attempt EXCEPT ![w] = @ + 1]
    /\ rpc' = [rpc EXCEPT ![w] =
           IF InRange(attempt[w] + 1, max_attempts) THEN "try" ELSE "raise"]
    /\ UNCHANGED << max_attempts, delay, backoff, script, timed, last_exception,
                    calls, rresult >>
    /\ UNCHANGED exceptRetry

\* "raise last_exception"
Raise(w) ==
    /\ rpc[w] = "raise"
    /\ rresult' = [rresult EXCEPT ![w] = [kind |-> "raise", exc |-> last_exception[w]]]
    /\ rpc' = [rpc EXCEPT ![w] = "done"]
    /\ UNCHANGED << max_attempts, delay, backoff, script, timed, attempt,
                    current_delay, last_exception, calls, waits, rlog >>
    /\ UNCHANGED exceptRetry

RetryEnter == Enter("retry")
RetryTry == Try("retry")
RetrySleep == Sleep("retry")
RetryRaise == Raise("retry")

\* retry_async's wrapper() is called: lines 80-83
RetryAsyncEnter ==
    /\ rpc["retry_async"] = "idle"
    /\ current_delay' = [current_delay EXCEPT !["retry_async"] = delay]
    /\ last_exception' = [last_exception EXCEPT !["retry_async"] = NoExc]
    /\ attempt' = [attempt EXCEPT !["retry_async"] = 0]
    /\ rpc' = [rpc EXCEPT !["retry_async"] =
           IF 0 < max_attempts THEN "try" ELSE "raise"]
    /\ UNCHANGED << max_attempts, delay, backoff, script, timed, calls, waits,
                    rlog, rresult >>
    /\ UNCHANGED exceptRetry

\* lines 84-93: "return await func(...)", or the except block up to the
\* await of asyncio.sleep or to the end of the loop body
RetryAsyncTry ==
    /\ rpc["retry_async"] = "try"
    /\ calls["retry_async"] < MaxAttempts
    /\ LET at == calls["retry_async"] + 1
           out == script[at]
       IN  /\ calls' = [calls EXCEPT !["retry_async"] = at]
           /\ rlog' = [rlog EXCEPT !["retry_async"] = @ \o FuncLog("retry_async", out)]
           /\ IF out = "ok"
              THEN /\ rresult' = [rresult EXCEPT !["retry_async"] =
                                      [kind |-> "return", at |-> at]]
                   /\ rpc' = [rpc EXCEPT !["retry_async"] = "done"]
                   /\ UNCHANGED << last_exception, attempt >>
              ELSE /\ last_exception' =
                          [last_exception EXCEPT !["retry_async"] = Exc(out, at)]
                   /\ IF attempt["retry_async"] < max_attempts - 1
                      THEN /\ rpc' = [rpc EXCEPT !["retry_async"] = "sleep"]
                           /\ UNCHANGED attempt
                      ELSE /\ attempt' = [attempt EXCEPT !["retry_async"] = @ + 1]
                           /\ rpc' = [rpc EXCEPT !["retry_async"] =
                                  IF attempt["retry_async"] + 1 < max_attempts
                                  THEN "try" ELSE "raise"]
                   /\ UNCHANGED rresult
    /\ UNCHANGED << max_attempts, delay, backoff, script, timed, current_delay,
                    waits >>
    /\ UNCHANGED exceptRetry

\* a retry_async whose delay stays what it was
RetryAsyncSleepFlat ==
    /\ rpc["retry_async"] = "sleep"
    /\ waits' = [waits EXCEPT !["retry_async"] = Append(@, current_delay["retry_async"])]
    /\ rlog' = [rlog EXCEPT !["retry_async"] =
           Append(@, Slept("retry_async", current_delay["retry_async"]))]
    /\ attempt' = [attempt EXCEPT !["retry_async"] = @ + 1]
    /\ rpc' = [rpc EXCEPT !["retry_async"] =
           IF attempt["retry_async"] + 1 < max_attempts THEN "try" ELSE "raise"]
    /\ UNCHANGED << max_attempts, delay, backoff, script, timed, current_delay,
                    last_exception, calls, rresult >>
    /\ UNCHANGED exceptRetry

\* lines 90-91 and 83: the await of asyncio.sleep ends, "current_delay *=
\* backoff", and the next iteration's test
RetryAsyncSleep ==
    /\ rpc["retry_async"] = "sleep"
    /\ waits' = [waits EXCEPT !["retry_async"] = Append(@, current_delay["retry_async"])]
    /\ rlog' = [rlog EXCEPT !["retry_async"] =
           Append(@, Slept("retry_async", current_delay["retry_async"]))]
    /\ current_delay' = [current_delay EXCEPT !["retry_async"] = @ * backoff]
    /\ attempt' = [attempt EXCEPT !["retry_async"] = @ + 1]
    /\ rpc' = [rpc EXCEPT !["retry_async"] =
           IF attempt["retry_async"] + 1 < max_attempts THEN "try" ELSE "raise"]
    /\ UNCHANGED << max_attempts, delay, backoff, script, timed, last_exception,
                    calls, rresult >>
    /\ UNCHANGED exceptRetry

\* line 95: "raise last_exception"
RetryAsyncRaise ==
    /\ rpc["retry_async"] = "raise"
    /\ rresult' = [rresult EXCEPT !["retry_async"] =
                       [kind |-> "raise", exc |-> last_exception["retry_async"]]]
    /\ rpc' = [rpc EXCEPT !["retry_async"] = "done"]
    /\ UNCHANGED << max_attempts, delay, backoff, script, timed, attempt,
                    current_delay, last_exception, calls, waits, rlog >>
    /\ UNCHANGED exceptRetry

\* a retry_async for which a cancellation is one more failure of the attempt
CancelSleepAsFailure ==
    /\ rpc["retry_async"] = "sleep"
    /\ last_exception' = [last_exception EXCEPT !["retry_async"] =
                              Exc("CancelledError", calls["retry_async"])]
    /\ attempt' = [attempt EXCEPT !["retry_async"] = @ + 1]
    /\ rpc' = [rpc EXCEPT !["retry_async"] =
           IF attempt["retry_async"] + 1 < max_attempts THEN "try" ELSE "raise"]
    /\ UNCHANGED << max_attempts, delay, backoff, script, timed, current_delay,
                    calls, waits, rlog, rresult >>
    /\ UNCHANGED exceptRetry

\* the task running retry_async's wrapper is cancelled while it awaits
\* asyncio.sleep: CancelledError is raised inside the except block and leaves
\* the wrapper
CancelSleep ==
    /\ rpc["retry_async"] = "sleep"
    /\ rresult' = [rresult EXCEPT !["retry_async"] =
                       [kind |-> "raise", exc |-> Exc("CancelledError", 0)]]
    /\ rpc' = [rpc EXCEPT !["retry_async"] = "done"]
    /\ UNCHANGED << max_attempts, delay, backoff, script, timed, attempt,
                    current_delay, last_exception, calls, waits, rlog >>
    /\ UNCHANGED exceptRetry

NextRetry ==
    \/ RetryEnter
    \/ RetryTry
    \/ RetrySleep
    \/ RetryRaise
    \/ RetryAsyncEnter
    \/ RetryAsyncTry
    \/ RetryAsyncSleep
    \/ RetryAsyncRaise
    \/ CancelSleep

(***************************************************************************)
(* _cache = TTLCache(maxsize=1000, ttl=300): the store of cachetools, as a  *)
(* sequence of links [key, value, expires] in the order of their last use  *)
(* (least recently used first: a link is used when it is set and when it   *)
(* is read).  Each operator is one method call, at time t of the cache's   *)
(* timer; a method call is one step (the calls of different threads        *)
(* interleave, their bodies do not).                                       *)
(***************************************************************************)
KeysOf(c) == { c[i].key : i \in 1..Len(c) }

LinkOf(c, k) == c[CHOOSE i \in 1..Len(c) : c[i].key = k]

\* an expiry test written the wrong way round
ContainsReversed(c, k, t) == k \in KeysOf(c) /\ LinkOf(c, k).expires < t

\* TTLCache.__contains__: "key in _cache"
Contains(c, k, t) == k \in KeysOf(c) /\ t < LinkOf(c, k).expires

\* TTLCache.__getitem__: "_cache[key]"; a missing or expired key raises KeyError
GetItem(c, k, t) ==
    IF k \in KeysOf(c) /\ t < LinkOf(c, k).expires
    THEN [found |-> TRUE, value |-> LinkOf(c, k).value, expires |-> LinkOf(c, k).expires]
    ELSE [found |-> FALSE, value |-> None, expires |-> 0]

\* TTLCache.expire: drop the links that have expired
Expire(c, t) == SelectSeq(c, LAMBDA l : t < l.expires)

\* Cache.__setitem__'s "while currsize + size > maxsize: popitem()", which
\* removes the least recently used link
RECURSIVE MakeRoom(_)
MakeRoom(c) == IF Len(c) + 1 > CacheMaxSize THEN MakeRoom(Tail(c)) ELSE c

Without(c, k) == SelectSeq(c, LAMBDA l : l.key # k)

\* a store whose reads renew the entry they read
AfterGetSliding(c, k) ==
    IF k \in KeysOf(c)
    THEN Append(Without(c, k), [LinkOf(c, k) EXCEPT !.expires = @ + CacheTTL])
    ELSE c

\* the store after "_cache[key]": TTLCache.__getitem__ marks the link of key
\* as the most recently used
AfterGet(c, k) ==
    IF k \in KeysOf(c) THEN Append(Without(c, k), LinkOf(c, k)) ELSE c

\* TTLCache.__setitem__: "_cache[key] = value"
SetItem(c, k, v, t) ==
    LET live == Expire(c, t)
        room == IF k \in KeysOf(live) THEN live ELSE MakeRoom(live)
    IN  Append(Without(room, k), [key |-> k, value |-> v, expires |-> t + CacheTTL])

(***************************************************************************)
(* cache_result.  The program has three decorated functions; f1 and f2 are *)
(* two functions of the same __name__.  ttl_seconds is never read by the   *)
(* wrapper, so one value per function covers all of them.                  *)
(***************************************************************************)
\* the threads that call decorated functions: two are enough for every
\* interleaving of one thread's check, execute and store with another's
Callers == {1, 2}

Funcs == {"f1", "f2", "g"}

Args == {1}

\* func.__name__
FuncName(f) == IF f = "g" THEN "g" ELSE "f"

\* the ttl_seconds given to cache_result when f was decorated
TtlSeconds(f) == CASE f = "f1" -> 50 [] f = "f2" -> 600 [] OTHER -> 300

\* cache_key: the md5 digest of the JSON text of func.__name__, str(args)
\* and str(sorted(kwargs.items())); one key per (name, arguments)
CacheKey(f, a) == [func |-> FuncName(f), args |-> a]

Keys == { CacheKey(f, a) : f \in Funcs, a \in Args }

NoKey == [func |-> None, args |-> 0]

\* what func(*args) returns
ValueOf(f, a) == [by |-> f, arg |-> a]

\* what func(*args) raises when it fails
FuncError == "DataSourceError"

NoRes == [kind |-> "none"]

NoSeen == [stores |-> 0, by |-> None, at |-> 0, evicted |-> FALSE, t |-> 0]

NoPrev == [key |-> NoKey, failed |-> FALSE, stores |-> 0]

NoHist == [stores |-> 0, by |-> None, at |-> 0, evicted |-> FALSE]

CacheStart ==
    /\ cache = << >>
    /\ now = 0
    /\ cpc = [c \in Callers |-> "idle"]
    /\ cfunc = [c \in Callers |-> "g"]
    /\ carg = [c \in Callers |-> 1]
    /\ cres = [c \in Callers |-> NoRes]
    /\ cinvoked = [c \in Callers |-> << >>]
    /\ hist = [k \in Keys |-> NoHist]
    /\ seen = [c \in Callers |-> NoSeen]
    /\ prev = [c \in Callers |-> NoPrev]
    /\ ncalls = 0

KeyOf(c) == CacheKey(cfunc[c], carg[c])

\* the keys whose links a step of the store removed before their expiry
Evicted(before, after, t) == KeysOf(Expire(before, t)) \ KeysOf(after)

\* thread c calls the wrapper of f with argument a: cache_key is computed
Call(c, f, a) ==
    /\ cpc[c] \in {"idle", "done"}
    /\ ncalls < MaxCalls
    /\ ncalls' = ncalls + 1
    /\ cfunc' = [cfunc EXCEPT ![c] = f]
    /\ carg' = [carg EXCEPT ![c] = a]
    /\ cpc' = [cpc EXCEPT ![c] = "check"]
    /\ cres' = [cres EXCEPT ![c] = NoRes]
    /\ cinvoked' = [cinvoked EXCEPT ![c] = << >>]
    /\ seen' = [seen EXCEPT ![c] = NoSeen]
    /\ prev' = [prev EXCEPT ![c] =
           IF cpc[c] = "done"
           THEN [key |-> KeyOf(c),
                 failed |-> (cres[c].kind = "raise" /\ cres[c].src = "func"),
                 stores |-> seen[c].stores]
           ELSE NoPrev]
    /\ UNCHANGED << cache, now, hist >>
    /\ UNCHANGED exceptCache

\* "if cache_key in _cache"
Check(c) ==
    /\ cpc[c] = "check"
    /\ LET hit == Contains(cache, KeyOf(c), now)
       IN  /\ cpc' = [cpc EXCEPT ![c] = IF hit THEN "read" ELSE "exec"]
           /\ seen' = [seen EXCEPT ![c] =
                  [stores |-> hist[KeyOf(c)].stores, by |-> hist[KeyOf(c)].by,
                   at |-> hist[KeyOf(c)].at, evicted |-> hist[KeyOf(c)].evicted,
                   t |-> now]]
    /\ UNCHANGED << cache, now, cfunc, carg, cres, cinvoked, hist, prev, ncalls >>
    /\ UNCHANGED exceptCache

\* "return _cache[cache_key]"
Read(c) ==
    /\ cpc[c] = "read"
    /\ LET got == GetItem(cache, KeyOf(c), now)
       IN  cres' = [cres EXCEPT ![c] =
               IF got.found
               THEN [kind |-> "return", value |-> got.value, src |-> "cache",
                     inserted |-> got.expires - CacheTTL, at |-> now]
               ELSE [kind |-> "raise", cls |-> "KeyError", src |-> "cache"]]
    /\ cache' = AfterGet(cache, KeyOf(c))
    /\ cpc' = [cpc EXCEPT ![c] = "done"]
    /\ UNCHANGED << now, cfunc, carg, cinvoked, hist, seen, prev, ncalls >>
    /\ UNCHANGED exceptCache

\* a wrapper that stores what a failing call raised
ExecCachingFailure(c) ==
    /\ cpc[c] = "exec"
    /\ \E ok \in BOOLEAN :
          IF ok
          THEN /\ cres' = [cres EXCEPT ![c] =
                      [kind |-> "result", value |-> ValueOf(cfunc[c], carg[c])]]
               /\ cpc' = [cpc EXCEPT ![c] = "store"]
               /\ cinvoked' = [cinvoked EXCEPT ![c] = Append(@, "ok")]
               /\ UNCHANGED cache
          ELSE /\ cres' = [cres EXCEPT ![c] =
                      [kind |-> "raise", cls |-> FuncError, src |-> "func"]]
               /\ cpc' = [cpc EXCEPT ![c] = "done"]
               /\ cinvoked' = [cinvoked EXCEPT ![c] = Append(@, FuncError)]
               /\ cache' = SetItem(cache, KeyOf(c), [by |-> None, arg |-> 0], now)
    /\ UNCHANGED << now, cfunc, carg, hist, seen, prev, ncalls >>
    /\ UNCHANGED exceptCache

\* "result = func(*args, **kwargs)": func returns, or raises and the
\* exception leaves the wrapper
Exec(c) ==
    /\ cpc[c] = "exec"
    /\ \E ok \in BOOLEAN :
          IF ok
          THEN /\ cres' = [cres EXCEPT ![c] =
                      [kind |-> "result", value |-> ValueOf(cfunc[c], carg[c])]]
               /\ cpc' = [cpc EXCEPT ![c] = "store"]
               /\ cinvoked' = [cinvoked EXCEPT ![c] = Append(@, "ok")]
          ELSE /\ cres' = [cres EXCEPT ![c] =
                      [kind |-> "raise", cls |-> FuncError, src |-> "func"]]
               /\ cpc' = [cpc EXCEPT ![c] = "done"]
               /\ cinvoked' = [cinvoked EXCEPT ![c] = Append(@, FuncError)]
    /\ UNCHANGED << cache, now, cfunc, carg, hist, seen, prev, ncalls >>
    /\ UNCHANGED exceptCache

\* "_cache[cache_key] = result" and "return result"
Store(c) ==
    /\ cpc[c] = "store"
    /\ cache' = SetItem(cache, KeyOf(c), cres[c].value, now)
    /\ hist' = [k \in Keys |->
           IF k = KeyOf(c)
           THEN [hist[k] EXCEPT !.stores = @ + 1, !.by = cfunc[c], !.at = now,
                                !.evicted = FALSE]
           ELSE IF k \in Evicted(cache, cache', now)
           THEN [hist[k] EXCEPT !.evicted = TRUE]
           ELSE hist[k]]
    /\ cres' = [cres EXCEPT ![c] =
           [kind |-> "return", value |-> cres[c].value, src |-> "func",
            inserted |-> now, at |-> now]]
    /\ cpc' = [cpc EXCEPT ![c] = "done"]
    /\ UNCHANGED << now, cfunc, carg, cinvoked, seen, prev, ncalls >>
    /\ UNCHANGED exceptCache

\* time passes
Tick ==
    /\ now + TickStep <= MaxTime
    /\ now' = now + TickStep
    /\ UNCHANGED << cache, cpc, cfunc, carg, cres, cinvoked, hist, seen, prev,
                    ncalls >>
    /\ UNCHANGED exceptCache

\* other decorated operations of the process fill the store to its maxsize:
\* a __setitem__ of theirs runs expire() and popitem(), which removes the
\* least recently used link
OtherStore ==
    /\ cache # << >>
    /\ cache' = IF Expire(cache, now) = << >> THEN << >> ELSE Tail(Expire(cache, now))
    /\ hist' = [k \in Keys |->
           IF k \in Evicted(cache, cache', now)
           THEN [hist[k] EXCEPT !.evicted = TRUE]
           ELSE hist[k]]
    /\ UNCHANGED << now, cpc, cfunc, carg, cres, cinvoked, seen, prev, ncalls >>
    /\ UNCHANGED exceptCache

CacheCall == \E c \in Callers, f \in Funcs, a \in Args : Call(c, f, a)
CacheCheck == \E c \in Callers : Check(c)
CacheRead == \E c \in Callers : Read(c)
CacheExec == \E c \in Callers : Exec(c)
CacheStore == \E c \in Callers : Store(c)

NextCache ==
    \/ CacheCall
    \/ CacheCheck
    \/ CacheRead
    \/ CacheExec
    \/ CacheStore
    \/ Tick
    \/ OtherStore

(***************************************************************************)
(* monitor_performance and monitor_performance_async.                      *)
(***************************************************************************)
\* the exceptions the wrapped function raises
FuncRaises == {"DataSourceError", "ValueError"}

MonitorStart ==
    /\ wall = 0
    /\ mpc = [m \in Monitors |-> "idle"]
    /\ start_time = [m \in Monitors |-> 0]
    /\ mresult = [m \in Monitors |-> [kind |-> "none"]]
    /\ minvoked = [m \in Monitors |-> << >>]
    /\ invocations = [m \in Monitors |-> 0]
    /\ records = << >>

\* wrapper() is called: "start_time = time.time()", and func is entered
MonitorCall(m) ==
    /\ mpc[m] \in {"idle", "done"}
    /\ invocations[m] < MaxInvocations
    /\ start_time' = [start_time EXCEPT ![m] = wall]
    /\ mpc' = [mpc EXCEPT ![m] = "func"]
    /\ mresult' = [mresult EXCEPT ![m] = [kind |-> "none"]]
    /\ minvoked' = [minvoked EXCEPT ![m] = << >>]
    /\ UNCHANGED << wall, invocations, records >>
    /\ UNCHANGED exceptMonitor

\* func returns: the try block's last three lines
MonitorReturn(m) ==
    /\ mpc[m] = "func"
    /\ records' = records \o Logged(m, "ok", wall - start_time[m])
    /\ mresult' = [mresult EXCEPT ![m] = [kind |-> "return"]]
    /\ minvoked' = [minvoked EXCEPT ![m] = Append(@, "ok")]
    /\ mpc' = [mpc EXCEPT ![m] = "done"]
    /\ invocations' = [invocations EXCEPT ![m] = @ + 1]
    /\ UNCHANGED << wall, start_time >>
    /\ UNCHANGED exceptMonitor

\* a timing wrapper that logs the failure and returns
LeaveSwallowing(m, cls) ==
    /\ mpc[m] = "func"
    /\ records' = records \o Logged(m, cls, wall - start_time[m])
    /\ mresult' = [mresult EXCEPT ![m] = [kind |-> "return"]]
    /\ minvoked' = [minvoked EXCEPT ![m] = Append(@, cls)]
    /\ mpc' = [mpc EXCEPT ![m] = "done"]
    /\ invocations' = [invocations EXCEPT ![m] = @ + 1]
    /\ UNCHANGED << wall, start_time >>
    /\ UNCHANGED exceptMonitor

\* an exception of class cls leaves func: "except Exception as e" logs and
\* re-raises what it catches; any other exception passes through
Leave(m, cls) ==
    /\ mpc[m] = "func"
    /\ records' = records \o Logged(m, cls, wall - start_time[m])
    /\ mresult' = [mresult EXCEPT ![m] = [kind |-> "raise", cls |-> cls]]
    /\ minvoked' = [minvoked EXCEPT ![m] = Append(@, cls)]
    /\ mpc' = [mpc EXCEPT ![m] = "done"]
    /\ invocations' = [invocations EXCEPT ![m] = @ + 1]
    /\ UNCHANGED << wall, start_time >>
    /\ UNCHANGED exceptMonitor

\* func raises
MonitorRaise(m) == \E cls \in FuncRaises : Leave(m, cls)

\* the task is cancelled while the wrapper is suspended in "await func(...)":
\* CancelledError is raised there
MonitorCancel == Leave("monitor_performance_async", "CancelledError")

\* time passes
MonitorTick ==
    /\ wall < MaxWall
    /\ wall' = wall + 1
    /\ UNCHANGED << mpc, start_time, mresult, minvoked, invocations, records >>
    /\ UNCHANGED exceptMonitor

NextMonitor ==
    \/ \E m \in Monitors : MonitorCall(m)
    \/ \E m \in Monitors : MonitorReturn(m)
    \/ \E m \in Monitors : MonitorRaise(m)
    \/ MonitorCancel
    \/ MonitorTick

(***************************************************************************)
(* validate_data.  A DataFrame is [rows, columns]; any other argument is   *)
(* NoDf, a value without the attributes "columns" and "index".             *)
(***************************************************************************)
Cols == {"A", "C"}

DataFrames == [rows : 0..MaxRows, columns : SUBSET Cols]

NoDf == [rows |-> -1, columns |-> {}]

ArgValues == DataFrames \cup {NoDf}

\* "hasattr(arg, 'columns') and hasattr(arg, 'index')"
IsTabular(v) == v # NoDf

\* the first tabular value of a sequence of values, or NoDf
RECURSIVE FirstTabular(_)
FirstTabular(vs) ==
    IF vs = << >> THEN NoDf
    ELSE IF IsTabular(Head(vs)) THEN Head(vs)
    ELSE FirstTabular(Tail(vs))

\* lines 134-144: the positional arguments first, then the named ones
FindDataFrame(args, kwargs) ==
    IF FirstTabular(args) # NoDf THEN FirstTabular(args) ELSE FirstTabular(kwargs)

\* "[col for col in required_columns if col not in df.columns]"
MissingCols(required, d) == SelectSeq(required, LAMBDA col : col \notin d.columns)

NoError == [cls |-> None, about |-> None, rows |-> 0, need |-> 0, missing |-> << >>]

RowsError(d, need) ==
    [cls |-> "ValueError", about |-> "rows", rows |-> d.rows, need |-> need,
     missing |-> << >>]

ColumnsError(missing) ==
    [cls |-> "ValueError", about |-> "columns", rows |-> 0, need |-> 0,
     missing |-> missing]

\* a validation that looks at the columns before the rows
ValidationColumnsFirst(d, required, need) ==
    IF d = NoDf THEN NoError
    ELSE IF required # None /\ required # << >> /\ MissingCols(required, d) # << >>
    THEN ColumnsError(MissingCols(required, d))
    ELSE IF d.rows < need THEN RowsError(d, need)
    ELSE NoError

\* a validation that takes a call without a DataFrame for one with an empty
\* DataFrame
ValidationOfEmpty(d, required, need) ==
    LET e == IF d = NoDf THEN [rows |-> 0, columns |-> {}] ELSE d
    IN  IF e.rows < need THEN RowsError(e, need)
        ELSE IF required # None /\ required # << >> /\ MissingCols(required, e) # << >>
        THEN ColumnsError(MissingCols(required, e))
        ELSE NoError

\* lines 146-154: the exception the validation raises, or NoError
Validation(d, required, need) ==
    IF d = NoDf THEN NoError
    ELSE IF d.rows < need THEN RowsError(d, need)
    ELSE IF required # None /\ required # << >> /\ MissingCols(required, d) # << >>
    THEN ColumnsError(MissingCols(required, d))
    ELSE NoError

\* the decorator's arguments, the call's arguments and func's behaviour
ValidateInputs ==
    /\ required_columns \in
           {None, << >>, <<"A">>, <<"C">>, <<"A", "C">>, <<"C", "A">>}
    /\ min_rows \in 0..(MaxRows + 1)
    /\ vargs \in {<< >>} \cup {<<a>> : a \in ArgValues}
                 \cup {<<a, b>> : a, b \in ArgValues}
    /\ vkwargs \in {<< >>} \cup {<<a>> : a \in ArgValues}
    /\ vfunc \in {"ok"} \cup FuncRaises

ValidateUnused ==
    /\ required_columns = None
    /\ min_rows = 1
    /\ vargs = << >>
    /\ vkwargs = << >>
    /\ vfunc = "ok"

ValidateStart ==
    /\ vpc = "idle"
    /\ df = NoDf
    /\ vcalls = 0
    /\ vpassed = << >>
    /\ vresult = [kind |-> "none", exc |-> NoError]

\* wrapper() is called: the search for a DataFrame and its validation
ValidateCheck ==
    /\ vpc = "idle"
    /\ df' = FindDataFrame(vargs, vkwargs)
    /\ IF Validation(df', required_columns, min_rows) # NoError
       THEN /\ vresult' = [kind |-> "raise",
                           exc |-> Validation(df', required_columns, min_rows)]
            /\ vpc' = "done"
       ELSE /\ vpc' = "invoke"
            /\ UNCHANGED vresult
    /\ UNCHANGED << required_columns, min_rows, vargs, vkwargs, vfunc, vcalls,
                    vpassed >>
    /\ UNCHANGED exceptValidate

\* "return func(*args, **kwargs)"
ValidateInvoke ==
    /\ vpc = "invoke"
    /\ vcalls' = vcalls + 1
    /\ vpassed' = Append(vpassed, << vargs, vkwargs >>)
    /\ vresult' = IF vfunc = "ok"
                  THEN [kind |-> "return", exc |-> NoError]
                  ELSE [kind |-> "raise",
                        exc |-> [NoError EXCEPT !.cls = vfunc, !.about = "func"]]
    /\ vpc' = "done"
    /\ UNCHANGED << required_columns, min_rows, vargs, vkwargs, vfunc, df >>
    /\ UNCHANGED exceptValidate

NextValidate ==
    \/ ValidateCheck
    \/ ValidateInvoke

(***************************************************************************)
(* The specifications.                                                     *)
(***************************************************************************)
InitRetry ==
    /\ RetryInputs /\ RetryStart
    /\ CacheStart /\ MonitorStart /\ ValidateUnused /\ ValidateStart

SpecRetry == InitRetry /\ [][NextRetry]_vars

InitCache ==
    /\ CacheStart
    /\ RetryUnused /\ RetryStart /\ MonitorStart /\ ValidateUnused /\ ValidateStart

SpecCache == InitCache /\ [][NextCache]_vars

InitMonitor ==
    /\ MonitorStart
    /\ RetryUnused /\ RetryStart /\ CacheStart /\ ValidateUnused /\ ValidateStart

SpecMonitor == InitMonitor /\ [][NextMonitor]_vars

InitValidate ==
    /\ ValidateInputs /\ ValidateStart
    /\ RetryUnused /\ RetryStart /\ CacheStart /\ MonitorStart

SpecValidate == InitValidate /\ [][NextValidate]_vars

\* The wrappers that call func once (the two timing wrappers, cache_result and
\* validate_data), one of them in use per behaviour: a wrapper takes a step
\* only while the others are where they started.  The cached operations are
\* called by one thread here; SpecCache has the concurrent callers.
InitPassThrough ==
    /\ MonitorStart /\ CacheStart /\ ValidateInputs /\ ValidateStart
    /\ RetryUnused /\ RetryStart

NextPassThrough ==
    \/ /\ CacheStart /\ ValidateUnused /\ ValidateStart
       /\ NextMonitor
       /\ \E m \in Monitors : \A n \in Monitors \ {m} : mpc'[n] = "idle"
    \/ /\ MonitorStart /\ ValidateUnused /\ ValidateStart
       /\ NextCache
       /\ \A c \in Callers \ {1} : cpc'[c] = "idle"
    \/ /\ MonitorStart /\ CacheStart
       /\ NextValidate

SpecPassThrough == InitPassThrough /\ [][NextPassThrough]_vars


(***************************************************************************)
(* Properties of retry and retry_async (under SpecRetry).                  *)
(***************************************************************************)
RECURSIVE Pow(_, _)
Pow(b, e) == IF e = 0 THEN 1 ELSE b * Pow(b, e - 1)

\* the wrapped operation fails on each of its first max_attempts invocations
AlwaysFails == \A i \in 1..max_attempts : script[i] # "ok"

\* wrapper() of w has ended, and not by the cancellation of its task
Ended(w) ==
    /\ rpc[w] = "done"
    /\ ~(rresult[w].kind = "raise" /\ rresult[w].exc.cls = "CancelledError")

\* C1: with max_attempts = n >= 1 and an operation that fails on every
\* invocation, retry and retry_async never invoke it more than n times, and
\* when the wrapper has ended (its task not cancelled) it has invoked it
\* exactly n times and raised the exception of the n-th invocation.
C1_ExhaustedRaisesLast ==
    \A w \in Wrappers :
        AlwaysFails =>
            /\ calls[w] <= max_attempts
            /\ Ended(w) =>
                  /\ calls[w] = max_attempts
                  /\ rresult[w] = [kind |-> "raise",
                                   exc |-> Exc(script[max_attempts], max_attempts)]

\* both wrappers have exhausted three or more attempts whose first and last
\* exceptions are of different classes
C1_Witness ==
    /\ AlwaysFails
    /\ max_attempts >= 3
    /\ script[1] # script[max_attempts]
    /\ \A w \in Wrappers : Ended(w) /\ calls[w] = max_attempts

\* C2: the i-th wait of a wrapper, which is the wait before attempt i+1,
\* lasts delay * backoff^(i-1), and attempt k is made after exactly k-1 waits.
C2_WaitIsGeometric ==
    \A w \in Wrappers :
        /\ \A i \in 1..Len(waits[w]) : waits[w][i] = delay * Pow(backoff, i - 1)
        /\ rpc[w] = "try" => Len(waits[w]) = calls[w]

\* retry has waited three times with delay 1 and backoff 2: 1, 2, 4
C2_Witness ==
    /\ delay = 1
    /\ backoff = 2
    /\ waits["retry"] = << 1, 2, 4 >>
    /\ rpc["retry"] = "try"

(***************************************************************************)
(* Properties of cache_result (under SpecCache).                           *)
(***************************************************************************)
\* thread c has passed its membership check
Checked(c) == cpc[c] \in {"read", "exec", "store", "done"}

\* thread c's check found no entry: it invokes func, or has invoked it
Missed(c) ==
    \/ cpc[c] \in {"exec", "store"}
    \/ cpc[c] = "done" /\ cres[c].src = "func"

\* thread c's call has returned a value read from the store
ServedFromCache(c) ==
    cpc[c] = "done" /\ cres[c].kind = "return" /\ cres[c].src = "cache"

\* at thread c's check, its function had stored a result for these arguments
\* less than its ttl_seconds before, and the entry had not been evicted
StoredWithinTtl(c) ==
    /\ seen[c].stores > 0
    /\ seen[c].by = cfunc[c]
    /\ ~seen[c].evicted
    /\ seen[c].t < seen[c].at + TtlSeconds(cfunc[c])

\* C3: a call made within ttl_seconds of a successful call of the same
\* function with the same arguments does not invoke the function again, and
\* the value it is served from the store is the one the first call returned.
C3_SecondCallWithinTtlIsServed ==
    \A c \in Callers :
        Checked(c) /\ StoredWithinTtl(c) =>
            /\ ~Missed(c)
            /\ ServedFromCache(c) => cres[c].value = ValueOf(cfunc[c], carg[c])

\* C4: a value is never returned from the store later than ttl_seconds (the
\* ttl given to the caller's wrapper) after it was inserted.
C4_NotServedAfterTtl ==
    \A c \in Callers :
        ServedFromCache(c) =>
            cres[c].at <= cres[c].inserted + TtlSeconds(cfunc[c])

\* C5, as claimed: two threads never both execute the function for a key
\* the store has never held (both have its result in hand, unstored).
C5_AtMostOneExecution ==
    \A c1, c2 \in Callers :
        c1 # c2 /\ KeyOf(c1) = KeyOf(c2) /\ cfunc[c1] = cfunc[c2] =>
            ~(/\ cpc[c1] = "store" /\ seen[c1].stores = 0
              /\ cpc[c2] = "store" /\ seen[c2].stores = 0)

\* C5, amended: a thread executes the function only if, at its check, the
\* key had no live entry: never stored, or its last entry expired or evicted.
C5_ExecutesOnlyOnMiss ==
    \A c \in Callers :
        Missed(c) =>
            \/ seen[c].stores = 0
            \/ seen[c].evicted
            \/ seen[c].t >= seen[c].at + CacheTTL

\* both threads have executed the same function for the same key at time 0,
\* and neither has stored its result yet
C5_Witness ==
    /\ now = 0
    /\ cpc[1] = "store" /\ cpc[2] = "store"
    /\ cfunc[1] = cfunc[2] /\ carg[1] = carg[2]
    /\ seen[1].stores = 0 /\ seen[2].stores = 0

\* C6: "return _cache[cache_key]" never raises: no call ends with an
\* exception of the store.
C6_LookupNeverRaises ==
    \A c \in Callers : ~(cres[c].kind = "raise" /\ cres[c].src = "cache")

\* C7: a step in which func fails leaves the store as it was and ends the
\* call with func's exception; and when a thread's previous call failed and
\* nothing was stored under the key since that call's check, the check of
\* its next call with the same arguments finds no entry, so that func is
\* invoked again.
C7_FailureStep ==
    \A c \in Callers :
        /\ cpc[c] = "exec" /\ cpc'[c] = "done" =>
              /\ cache' = cache
              /\ cres'[c] = [kind |-> "raise", cls |-> FuncError, src |-> "func"]
        /\ ( /\ cpc[c] = "check" /\ cpc'[c] # "check"
             /\ prev[c].failed
             /\ prev[c].key = KeyOf(c)
             /\ hist[KeyOf(c)].stores = prev[c].stores ) => cpc'[c] = "exec"

C7_FailureIsNotCached == [][C7_FailureStep]_vars

\* a thread whose previous call failed has called again with the same
\* arguments and func has been invoked again
C7_Witness ==
    \E c \in Callers :
        /\ prev[c].failed
        /\ prev[c].key = KeyOf(c)
        /\ cpc[c] = "store"

(***************************************************************************)
(* Properties of validate_data (under SpecValidate).                       *)
(***************************************************************************)
\* the DataFrame has fewer rows than min_rows
TooFewRows(d) == d.rows < min_rows

\* some required column is not among the DataFrame's columns
LacksColumns(d) ==
    /\ required_columns # None
    /\ \E i \in 1..Len(required_columns) : required_columns[i] \notin d.columns

\* wrapper() has ended for a call whose first tabular argument is d
ValidatedAndEnded(d) == vpc = "done" /\ d # NoDf /\ d = FindDataFrame(vargs, vkwargs)

\* C8: when the first tabular argument has too few rows or lacks a required
\* column, func is not invoked and the call fails with a DataValidationError.
C8_ViolationRaisesDataValidationError ==
    \A d \in DataFrames :
        ValidatedAndEnded(d) /\ (TooFewRows(d) \/ LacksColumns(d)) =>
            /\ vcalls = 0
            /\ vresult.kind = "raise"
            /\ IsSubclass(vresult.exc.cls, "DataValidationError")

\* C9, as claimed: when the first tabular argument has too few rows and lacks
\* a required column, func is not invoked and the exception raised names the
\* row counts and the missing columns.
C9_ErrorIdentifiesBoth ==
    \A d \in DataFrames :
        ValidatedAndEnded(d) /\ TooFewRows(d) /\ LacksColumns(d) =>
            /\ vcalls = 0
            /\ vresult.kind = "raise"
            /\ vresult.exc.rows = d.rows /\ vresult.exc.need = min_rows
            /\ vresult.exc.missing = MissingCols(required_columns, d)

\* C9, amended: in that case func is not invoked and the exception raised is
\* the ValueError of the row count alone: it names the actual and the
\* required number of rows and no column.
C9_RowsErrorOnly ==
    \A d \in DataFrames :
        ValidatedAndEnded(d) /\ TooFewRows(d) /\ LacksColumns(d) =>
            /\ vcalls = 0
            /\ vresult = [kind |-> "raise",
                          exc |-> [cls |-> "ValueError", about |-> "rows",
                                   rows |-> d.rows, need |-> min_rows,
                                   missing |-> << >>]]

\* a DataFrame of 2 rows with the column A alone has been validated against
\* required_columns = [A, C] and min_rows = 3
C9_Witness ==
    /\ vpc = "done"
    /\ vargs = << [rows |-> 2, columns |-> {"A"}] >>
    /\ required_columns = <<"A", "C">>
    /\ min_rows = 3
    /\ vresult.kind = "raise"

(***************************************************************************)
(* Properties of the timing wrappers (under SpecMonitor).                  *)
(***************************************************************************)
RecordsOf(m) == { i \in 1..Len(records) : records[i].wrapper = m }

\* C10: each wrapper has logged exactly one record per invocation of it that
\* has ended, however it ended.
C10_OneRecordPerInvocation ==
    \A m \in Monitors : Cardinality(RecordsOf(m)) = invocations[m]

(***************************************************************************)
(* Properties of the retry wrappers around a timed operation (under        *)
(* SpecRetry).                                                             *)
(***************************************************************************)
\* the entries of w's log that are records of the timing wrapper
RecordsIn(w) == SelectSeq(rlog[w], LAMBDA e : e.outcome # "sleep")

\* C11: when an operation that fails on every invocation is wrapped with
\* timing and with retry, the log holds one failure record of the timing
\* wrapper per invocation made so far, each one logged before the wait that
\* follows its attempt (records and waits alternate, a record first), so that
\* a wrapper that has ended with max_attempts = n has logged exactly n
\* failure records.
C11_FailureRecordPerAttempt ==
    \A w \in Wrappers :
        timed /\ AlwaysFails =>
            /\ \A i \in 1..Len(rlog[w]) :
                  /\ rlog[w][i].outcome = IF i % 2 = 1 THEN "failure" ELSE "sleep"
                  /\ rlog[w][i].wrapper = IF i % 2 = 1 THEN TimerOf(w) ELSE w
            /\ Len(RecordsIn(w)) = calls[w]
            /\ Ended(w) => Len(RecordsIn(w)) = max_attempts

\* retry, around a timed operation that always fails, has exhausted three
\* attempts: three failure records with two waits in between
C11_Witness ==
    /\ timed
    /\ AlwaysFails
    /\ max_attempts = 3
    /\ Ended("retry")
    /\ Len(rlog["retry"]) = 5
    /\ Len(RecordsIn("retry")) = 3

\* retry_async's wrapper() has ended by the cancellation of its task
Cancelled ==
    /\ rpc["retry_async"] = "done"
    /\ rresult["retry_async"].kind = "raise"
    /\ rresult["retry_async"].exc.cls = "CancelledError"

\* C12: a cancellation that reaches retry_async during the wait between two
\* attempts ends the wrapper with CancelledError: the wait is not completed,
\* the operation is not invoked again although attempts remain, the loop
\* variable is not advanced, and the cancellation is never stored as the last
\* error, which stays the failure of the last invocation and is not raised.
C12_CancellationPropagates ==
    /\ last_exception["retry_async"].cls # "CancelledError"
    /\ Cancelled =>
          /\ calls["retry_async"] < max_attempts
          /\ calls["retry_async"] = attempt["retry_async"] + 1
          /\ Len(waits["retry_async"]) = calls["retry_async"] - 1
          /\ last_exception["retry_async"] =
                 Exc(script[calls["retry_async"]], calls["retry_async"])
          /\ rresult["retry_async"].exc # last_exception["retry_async"]

\* retry_async was cancelled in its second wait, with two of four attempts
\* left
C12_Witness ==
    /\ Cancelled
    /\ max_attempts = 4
    /\ calls["retry_async"] = 2
    /\ waits["retry_async"] = << delay >>

(***************************************************************************)
(* Properties of the wrappers that call func once (under SpecPassThrough). *)
(***************************************************************************)
\* func's last invocation by the wrapper call raised an exception
Failed(outs) == outs # << >> /\ outs[Len(outs)] # "ok"

\* C13: the timing, cache and validation wrappers invoke func at most once
\* per call of the wrapper, and when that invocation raises an exception the
\* wrapper's call ends by raising the exception of the same class, as raised
\* by func.
C13_FailurePassesThrough ==
    /\ \A m \in Monitors :
          /\ Len(minvoked[m]) <= 1
          /\ mpc[m] = "done" /\ Failed(minvoked[m]) =>
                 mresult[m] = [kind |-> "raise", cls |-> minvoked[m][1]]
    /\ \A c \in Callers :
          /\ Len(cinvoked[c]) <= 1
          /\ Failed(cinvoked[c]) =>
                 /\ cpc[c] = "done"
                 /\ cres[c] = [kind |-> "raise", cls |-> cinvoked[c][1],
                               src |-> "func"]
    /\ vcalls <= 1
    /\ vcalls = 1 /\ vfunc # "ok" =>
          /\ vpc = "done"
          /\ vresult.kind = "raise"
          /\ vresult.exc.cls = vfunc
          /\ vresult.exc.about = "func"

\* monitor_performance has ended an invocation in which func raised
\* ValueError
C13_Witness ==
    /\ mpc["monitor_performance"] = "done"
    /\ minvoked["monitor_performance"] = << "ValueError" >>
    /\ mresult["monitor_performance"].kind = "raise"

\* a class of the taxonomy from which no other class derives
IsLeaf(c) == c \in TaxonomyClasses /\ \A d \in TaxonomyClasses : Base(d) # c

\* C14: the exception with which retry or retry_async ends after max_attempts
\* failures is of a leaf class of the taxonomy rooted at ICTTradingError,
\* whatever the class of the exception the operation raised.
C14_ExhaustionRaisesTaxonomyLeaf ==
    \A w \in Wrappers :
        Ended(w) /\ rresult[w].kind = "raise" =>
            /\ IsSubclass(rresult[w].exc.cls, "ICTTradingError")
            /\ IsLeaf(rresult[w].exc.cls)

\* C15: retry and retry_async wait only between attempts: no wait is begun
\* before the first invocation nor after the invocation number max_attempts,
\* a wrapper that has ended after m invocations has completed exactly m-1
\* waits, and with max_attempts = 1 it has invoked the operation once, has
\* not waited, and a failure of that invocation is what it raised.
C15_WaitsOnlyBetweenAttempts ==
    \A w \in Wrappers :
        /\ calls[w] = 0 => waits[w] = << >> /\ rpc[w] # "sleep"
        /\ rpc[w] = "sleep" => calls[w] < max_attempts
        /\ Ended(w) => Len(waits[w]) = calls[w] - 1
        /\ Ended(w) /\ max_attempts = 1 =>
              /\ calls[w] = 1
              /\ waits[w] = << >>
              /\ script[1] # "ok" =>
                     rresult[w] = [kind |-> "raise", exc |-> Exc(script[1], 1)]

\* both wrappers have ended a call with max_attempts = 1 whose single
\* invocation failed
C15_Witness ==
    /\ max_attempts = 1
    /\ delay = 2
    /\ script[1] # "ok"
    /\ \A w \in Wrappers : Ended(w) /\ calls[w] = 1 /\ waits[w] = << >>

\* the operation succeeds on invocation k, after failing on the k-1 before it
SucceedsAt(k) ==
    /\ k \in 1..max_attempts
    /\ script[k] = "ok"
    /\ \A i \in 1..(k - 1) : script[i] # "ok"

\* C17: when the operation fails on its first j invocations and succeeds on
\* invocation j+1 <= max_attempts, a wrapper that has ended has invoked it
\* exactly j+1 times, has returned the result of invocation j+1 after j waits
\* and has raised nothing; a wrapper ends by raising only when each of
\* max_attempts invocations failed.
C17_ReturnsAtFirstSuccess ==
    \A w \in Wrappers :
        Ended(w) =>
            /\ \A k \in 1..max_attempts :
                  SucceedsAt(k) =>
                      /\ rresult[w] = [kind |-> "return", at |-> k]
                      /\ calls[w] = k
                      /\ Len(waits[w]) = k - 1
            /\ rresult[w].kind = "raise" =>
                  /\ AlwaysFails
                  /\ calls[w] = max_attempts

\* with max_attempts = 4, both wrappers have returned the result of the third
\* invocation, the first two having failed
C17_Witness ==
    /\ max_attempts = 4
    /\ SucceedsAt(3)
    /\ \A w \in Wrappers : Ended(w) /\ calls[w] = 3 /\ rresult[w].kind = "return"

\* C18: run on the same max_attempts, delay, backoff and outcomes of the
\* operation, retry and retry_async that have both ended (no cancellation)
\* have made the same number of invocations and the same sequence of waits
\* and have ended with the same result or exception; and whenever they stand
\* at the same point after the same number of invocations, their waits so
\* far, next delay, loop variable and last exception are the same.
C18_VariantsAgree ==
    /\ Ended("retry") /\ Ended("retry_async") =>
          /\ calls["retry"] = calls["retry_async"]
          /\ waits["retry"] = waits["retry_async"]
          /\ rresult["retry"] = rresult["retry_async"]
    /\ rpc["retry"] = rpc["retry_async"] /\ calls["retry"] = calls["retry_async"]
       /\ ~Cancelled =>
          /\ waits["retry"] = waits["retry_async"]
          /\ current_delay["retry"] = current_delay["retry_async"]
          /\ attempt["retry"] = attempt["retry_async"]
          /\ last_exception["retry"] = last_exception["retry_async"]

\* both variants have exhausted four attempts with delay 1 and backoff 2
C18_Witness ==
    /\ delay = 1
    /\ backoff = 2
    /\ Ended("retry") /\ Ended("retry_async")
    /\ waits["retry_async"] = << 1, 2, 4 >>
    /\ rresult["retry_async"].kind = "raise"

(***************************************************************************)
(* More properties of validate_data (under SpecValidate).                  *)
(***************************************************************************)
\* none of the call's positional and named arguments is tabular
NoTabularArgument ==
    /\ \A i \in 1..Len(vargs) : ~IsTabular(vargs[i])
    /\ \A i \in 1..Len(vkwargs) : ~IsTabular(vkwargs[i])

\* C16: when no argument of the call is tabular, validate_data raises nothing
\* of its own, whatever required_columns and min_rows are: it goes on to
\* invoke func, and when it has ended it has invoked func exactly once, with
\* the call's own positional and named arguments, and has returned what func
\* returned (or raised what func raised).
C16_NoTabularArgumentPassesThrough ==
    NoTabularArgument =>
        /\ vpc # "idle" => df = NoDf
        /\ vpc = "invoke" => vcalls = 0
        /\ vpc = "done" =>
              /\ vcalls = 1
              /\ vpassed = << << vargs, vkwargs >> >>
              /\ vresult = IF vfunc = "ok"
                           THEN [kind |-> "return", exc |-> NoError]
                           ELSE [kind |-> "raise",
                                 exc |-> [NoError EXCEPT !.cls = vfunc,
                                                         !.about = "func"]]

\* a call with three arguments, none of them tabular, has returned func's
\* result under required_columns = [A, C] and min_rows = 3
C16_Witness ==
    /\ vpc = "done"
    /\ vargs = << NoDf, NoDf >>
    /\ vkwargs = << NoDf >>
    /\ required_columns = <<"A", "C">>
    /\ min_rows = 3
    /\ vcalls = 1
    /\ vresult.kind = "return"

(***************************************************************************)
(* More properties of cache_result (under SpecCache).                      *)
(***************************************************************************)
\* thread c's step is a read of the store that returns a value
HitStep(c) == cpc[c] = "read" /\ cpc'[c] = "done" /\ cres'[c].kind = "return"

\* C19, as stated: a step that serves a call from the store leaves the store
\* as it was.
C19_HitLeavesStoreUnchanged ==
    [][\A c \in Callers : HitStep(c) => cache' = cache]_vars

\* C19, amended: reads do not rewrite the store's entries: every entry holds the
\* value and the expiry given to it by the last store of its key (insertion
\* time + 300 s), however many calls were served from it since; and a call
\* served from the store has not invoked func and was served before the
\* entry's insertion time + 300 s.
C19_HitKeepsEntry ==
    /\ \A i \in 1..Len(cache) :
          /\ hist[cache[i].key].stores > 0
          /\ cache[i].expires = hist[cache[i].key].at + CacheTTL
          /\ cache[i].value = ValueOf(hist[cache[i].key].by, cache[i].key.args)
    /\ \A c \in Callers :
          ServedFromCache(c) =>
              /\ cinvoked[c] = << >>
              /\ cres[c].at < cres[c].inserted + CacheTTL

\* an entry stored at time 0 has served one call at time 0 and another one
\* TickStep seconds later, and still expires at 300
C19_Witness ==
    /\ ServedFromCache(1) /\ ServedFromCache(2)
    /\ KeyOf(1) = KeyOf(2)
    /\ cres[1].inserted = 0 /\ cres[2].inserted = 0
    /\ cres[1].at = TickStep /\ cres[2].at = 0
    /\ KeyOf(1) \in KeysOf(cache)
    /\ LinkOf(cache, KeyOf(1)).expires = CacheTTL

\* C20: a call of a decorated function that is served from the store returns
\* a value that this same function computed.
C20_ServedOwnValue ==
    \A c \in Callers :
        ServedFromCache(c) => cres[c].value.by = cfunc[c]

====
